---- MODULE Spec2Model ----
(***************************************************************************)
(* A model of goatools/pvalcalc.py: the FisherFactory that resolves a      *)
(* backend name to a p-value calculator (with the ImportError fallback),   *)
(* the three calculator classes, and calc_pvalue calls made on the         *)
(* constructed calculator by two callers whose calls may overlap.          *)
(*                                                                         *)
(* Spec is the whole program: construction, then calls with small counts  *)
(* by both callers.  CalcSpec is a single calc_pvalue call, on every       *)
(* calculator the factory can deliver, over a wider range of counts.       *)
(*                                                                         *)
(* P-values are exact rationals [num, den]; the two external Fisher        *)
(* routines (fisher.pvalue_population, scipy.stats.fisher_exact) are       *)
(* modelled by the exact hypergeometric tails they compute.                *)
(***************************************************************************)
EXTENDS Integers, Sequences, FiniteSets, TLC

\* Largest count passed to a single calc_pvalue call (CalcSpec).
MaxPop == 6

\* Largest count passed by the two overlapping callers (Spec).
MaxShared == 2

VARIABLES
    env,        \* which modules can be imported: [fisher, scipy : BOOLEAN]
    factory,    \* the FisherFactory instance's attributes, or NoObj
    pval_obj,   \* the calculator instance (factory.pval_obj, or a bare base)
    raised,     \* the exception that left the constructor, or NoExc
    stdout,     \* what has been printed to sys.stdout
    logsink,    \* what has been written to the sink given as log=
    ctor_calls, \* calculator constructors attempted, in order
    frames      \* per caller: the calc_pvalue call in flight or just returned

vars == <<env, factory, pval_obj, raised, stdout, logsink, ctor_calls, frames>>

----------------------------------------------------------------------------
\* Values

NoObj == [cls |-> "NoneType"]
NoExc == [type |-> "None"]
NoRet == [kind |-> "none"]

Callers == {"c1", "c2"}

\* Sinks a log= option can name; sys.stdout is the default.
SysStdout == "sys.stdout"
LogFile == "logfile"

BackendNames == {"fisher", "fisher_scipy_stats", "not_a_real_backend"}
TestTypes == {"up", "down", "updown", "sideways"}
Directions == {"up", "down", "updown"}

Min(x, y) == IF x <= y THEN x ELSE y
Max(x, y) == IF x >= y THEN x ELSE y

\* Equality and order of exact rationals with positive denominators.
PEq(p, q) == p.num * q.den = q.num * p.den
POne == [num |-> 1, den |-> 1]

----------------------------------------------------------------------------
\* The external numeric routines

RECURSIVE Choose(_, _)
Choose(n, k) ==
    IF k < 0 \/ k > n THEN 0
    ELSE IF k = 0 THEN 1
    ELSE (Choose(n - 1, k - 1) * n) \div k

\* Number of 2x2 tables with x in the top-left cell, given first-row sum n,
\* first-column sum K and grand total N.
HyperW(x, n, K, N) == Choose(K, x) * Choose(N - K, n - x)

RECURSIVE SumW(_, _, _, _)
SumW(S, n, K, N) ==
    IF S = {} THEN 0
    ELSE LET x == CHOOSE y \in S : TRUE
         IN  HyperW(x, n, K, N) + SumW(S \ {x}, n, K, N)

Support(n, K, N) == Max(0, n - (N - K)) .. Min(n, K)

\* fisher.pvalue_population(k, n, K, N): all three tails at once.
pvalue_population(k, n, K, N) ==
    LET S   == Support(n, K, N)
        den == SumW(S, n, K, N)
        P(T) == [num |-> SumW(T, n, K, N), den |-> den]
    IN  [left_tail  |-> P({x \in S : x <= k}),
         right_tail |-> P({x \in S : x >= k}),
         two_tail   |-> P({x \in S : HyperW(x, n, K, N) <= HyperW(k, n, K, N)})]

\* scipy.stats.fisher_exact rejects a table with a negative cell (ValueError).
fisher_exact_raises(table) ==
    \E i \in 1..2, j \in 1..2 : table[i][j] < 0

\* scipy.stats.fisher_exact(table, alternative) -> <<oddsratio, pvalue>>.
\* The odds ratio is the pair <<a*d, b*c>>.
fisher_exact(table, alternative) ==
    LET a == table[1][1]
        b == table[1][2]
        c == table[2][1]
        d == table[2][2]
        n == a + b
        K == a + c
        N == a + b + c + d
        S == Support(n, K, N)
        den == SumW(S, n, K, N)
        P(T) == [num |-> SumW(T, n, K, N), den |-> den]
        odds == <<a * d, b * c>>
    IN  IF a + b = 0 \/ c + d = 0 \/ a + c = 0 \/ b + d = 0
        THEN <<odds, POne>>
        ELSE CASE alternative = "less"      -> <<odds, P({x \in S : x <= a})>>
               [] alternative = "greater"   -> <<odds, P({x \in S : x >= a})>>
               [] alternative = "two-sided" ->
                    <<odds, P({x \in S : HyperW(x, n, K, N) <= HyperW(a, n, K, N)})>>

----------------------------------------------------------------------------
\* class PvalCalcBase

PvalCalcBase_init(cls, name, pval_fnc, log, test_type) ==
    [cls |-> cls, name |-> name, pval_fnc |-> pval_fnc,
     log |-> log, test_type |-> test_type]

\* A base class that answers instead of raising.
PvalCalcBase_calc_pvalue_returning(self, study_count, study_n, pop_count, pop_n) ==
    [self |-> self, ext |-> <<>>, ret |-> [kind |-> "return", value |-> POne]]

\* The outcome of a method call: the instance afterwards, the external
\* routine calls it made, and what it returned or raised.
PvalCalcBase_calc_pvalue(self, study_count, study_n, pop_count, pop_n) ==
    LET fnc_call == <<"calc_pvalue(", study_count, ", ", study_n, ", ",
                      pop_count, " ", pop_n, ")">>
    IN  [self |-> self,
         ext  |-> <<>>,
         ret  |-> [kind |-> "raise", type |-> "Exception",
                   msg |-> <<"NOT IMPLEMENTED: ", fnc_call, " using ",
                             self.pval_fnc, ".">>]]

----------------------------------------------------------------------------
\* class FisherClass

\* 'down' mapped to the tail 'up' uses.
FisherClass_options_down_right ==
    [up |-> "right_tail", down |-> "right_tail", updown |-> "two_tail"]

FisherClass_options ==
    [up |-> "right_tail", down |-> "left_tail", updown |-> "two_tail"]

\* import fisher, then the base initialiser.
FisherClass_init(name, log, test_type, e) ==
    IF e.fisher
    THEN [exc |-> NoExc,
          obj |-> PvalCalcBase_init("FisherClass", name,
                                    "fisher.pvalue_population", log, test_type)]
    ELSE [exc |-> [type |-> "ImportError", module |-> "fisher"], obj |-> NoObj]

\* A calc_pvalue that rewrites the instance's directionality as it runs.
FisherClass_calc_pvalue_stateful(self, study_count, study_n, pop_count, pop_n) ==
    LET call == [fnc |-> self.pval_fnc,
                 args |-> <<study_count, study_n, pop_count, pop_n>>]
        pval == pvalue_population(study_count, study_n, pop_count, pop_n)
    IN  IF self.test_type \in DOMAIN FisherClass_options
        THEN [self |-> [self EXCEPT !.test_type = "updown"],
              ext  |-> <<call>>,
              ret  |-> [kind |-> "return",
                        value |-> pval[FisherClass_options[self.test_type]]]]
        ELSE [self |-> self,
              ext  |-> <<call>>,
              ret  |-> [kind |-> "raise", type |-> "KeyError",
                        key |-> self.test_type]]

FisherClass_calc_pvalue(self, study_count, study_n, pop_count, pop_n) ==
    LET call == [fnc |-> self.pval_fnc,
                 args |-> <<study_count, study_n, pop_count, pop_n>>]
        pval == pvalue_population(study_count, study_n, pop_count, pop_n)
    IN  IF self.test_type \in DOMAIN FisherClass_options
        THEN [self |-> self,
              ext  |-> <<call>>,
              ret  |-> [kind |-> "return",
                        value |-> pval[FisherClass_options[self.test_type]]]]
        ELSE [self |-> self,
              ext  |-> <<call>>,
              ret  |-> [kind |-> "raise", type |-> "KeyError",
                        key |-> self.test_type]]

----------------------------------------------------------------------------
\* class FisherScipyStats

\* 'up' and 'down' exchanged.
FisherScipyStats_options_swapped ==
    [up |-> "less", down |-> "greater", updown |-> "two-sided"]

FisherScipyStats_options ==
    [up |-> "greater", down |-> "less", updown |-> "two-sided"]

\* from scipy import stats, then the base initialiser.
FisherScipyStats_init(name, log, test_type, e) ==
    IF e.scipy
    THEN [exc |-> NoExc,
          obj |-> PvalCalcBase_init("FisherScipyStats", name,
                                    "scipy.stats.fisher_exact", log, test_type)]
    ELSE [exc |-> [type |-> "ImportError", module |-> "scipy"], obj |-> NoObj]

\* d computed without taking b off.
ContingencyTable_d_without_b(study_count, study_n, pop_count, pop_n) ==
    LET a == study_count
        b == study_n - study_count
        c == pop_count - study_count
        d == pop_n - pop_count
    IN  <<<<a, b>>, <<c, d>>>>

\* c taken as the whole population count.
ContingencyTable_c_whole(study_count, study_n, pop_count, pop_n) ==
    LET a == study_count
        b == study_n - study_count
        c == pop_count
        d == pop_n - pop_count - b
    IN  <<<<a, b>>, <<c, d>>>>

\* The 2x2 table built from the four counts.
ContingencyTable(study_count, study_n, pop_count, pop_n) ==
    LET a == study_count
        b == study_n - study_count
        c == pop_count - study_count
        d == pop_n - pop_count - b
    IN  <<<<a, b>>, <<c, d>>>>

FisherScipyStats_calc_pvalue(self, study_count, study_n, pop_count, pop_n) ==
    LET table == ContingencyTable(study_count, study_n, pop_count, pop_n)
    IN  IF self.test_type \in DOMAIN FisherScipyStats_options
        THEN LET alt  == FisherScipyStats_options[self.test_type]
                 call == [fnc |-> self.pval_fnc, table |-> table,
                          alternative |-> alt]
                 res  == fisher_exact(table, alt)
             IN  IF fisher_exact_raises(table)
                 THEN [self |-> self,
                       ext  |-> <<call>>,
                       ret  |-> [kind |-> "raise", type |-> "ValueError"]]
                 ELSE [self |-> self,
                       ext  |-> <<call>>,
                       ret  |-> [kind |-> "return", value |-> res[2]]]
        ELSE [self |-> self,
              ext  |-> <<>>,
              ret  |-> [kind |-> "raise", type |-> "KeyError",
                        key |-> self.test_type]]

\* Method dispatch on the instance's class.
calc_pvalue(self, study_count, study_n, pop_count, pop_n) ==
    CASE self.cls = "FisherClass" ->
            FisherClass_calc_pvalue(self, study_count, study_n, pop_count, pop_n)
      [] self.cls = "FisherScipyStats" ->
            FisherScipyStats_calc_pvalue(self, study_count, study_n, pop_count, pop_n)
      [] self.cls = "PvalCalcBase" ->
            PvalCalcBase_calc_pvalue(self, study_count, study_n, pop_count, pop_n)

----------------------------------------------------------------------------
\* class FisherFactory

FisherFactory_options ==
    [fisher |-> "FisherClass", fisher_scipy_stats |-> "FisherScipyStats"]

FallbackWarning ==
    "fisher module not installed.  Falling back on scipy.stats.fisher_exact"

\* Calling a registry entry: the class's constructor.
Construct(cls, name, log, test_type, e) ==
    CASE cls = "FisherClass"      -> FisherClass_init(name, log, test_type, e)
      [] cls = "FisherScipyStats" -> FisherScipyStats_init(name, log, test_type, e)

\* The try/except of _init_pval_obj for a registered name: the named class
\* first, FisherScipyStats once more if that raised ImportError.  What was
\* printed and which constructors were called are part of the outcome.
TryBackends_no_fallback(self, e) ==
    LET cls   == FisherFactory_options[self.pval_fnc_name]
        first == Construct(cls, self.pval_fnc_name, self.log, self.test_type, e)
    IN  [obj |-> first.obj, exc |-> first.exc,
         printed |-> <<>>, ctors |-> <<cls>>]

TryBackends(self, e) ==
    LET cls   == FisherFactory_options[self.pval_fnc_name]
        first == Construct(cls, self.pval_fnc_name, self.log, self.test_type, e)
    IN  IF first.exc.type = "ImportError"
        THEN LET fb    == FisherFactory_options["fisher_scipy_stats"]
                 again == Construct(fb, "fisher_scipy_stats", self.log,
                                    self.test_type, e)
             IN  [obj |-> again.obj, exc |-> again.exc,
                  printed |-> <<FallbackWarning>>,
                  ctors |-> <<cls, fb>>]
        ELSE [obj |-> first.obj, exc |-> first.exc,
              printed |-> <<>>, ctors |-> <<cls>>]

\* The raise at the end of _init_pval_obj.
NotFound(self) ==
    [obj |-> NoObj,
     exc |-> [type |-> "Exception",
              msg |-> <<"PVALUE FUNCTION(", self.pval_fnc_name, ") NOT FOUND">>],
     printed |-> <<>>, ctors |-> <<>>]

\* An unknown name silently treated as the default backend.
FisherFactory_init_pval_obj_defaulting(self, e) ==
    IF self.pval_fnc_name \in DOMAIN FisherFactory_options
    THEN TryBackends(self, e)
    ELSE TryBackends([self EXCEPT !.pval_fnc_name = "fisher"], e)

\* The directionality checked when the factory is built.
FisherFactory_init_pval_obj_validating(self, e) ==
    IF self.test_type \notin Directions
    THEN [obj |-> NoObj,
          exc |-> [type |-> "Exception",
                   msg |-> <<"TEST TYPE(", self.test_type, ") NOT FOUND">>],
          printed |-> <<>>, ctors |-> <<>>]
    ELSE IF self.pval_fnc_name \in DOMAIN FisherFactory_options
    THEN TryBackends(self, e)
    ELSE NotFound(self)

\* _init_pval_obj
FisherFactory_init_pval_obj(self, e) ==
    IF self.pval_fnc_name \in DOMAIN FisherFactory_options
    THEN TryBackends(self, e)
    ELSE NotFound(self)

\* __init__: the three options with their defaults.
FisherFactory_init(kws) ==
    [log           |-> IF "log" \in DOMAIN kws THEN kws["log"] ELSE SysStdout,
     pval_fnc_name |-> IF "pvalcalc" \in DOMAIN kws THEN kws["pvalcalc"] ELSE "fisher",
     test_type     |-> IF "test_type" \in DOMAIN kws THEN kws["test_type"] ELSE "updown"]

----------------------------------------------------------------------------
\* Inputs

KwsKeys == {"log", "pvalcalc", "test_type"}

KwsSet ==
    { [k \in D |-> CASE k = "log" -> l
                     [] k = "pvalcalc" -> n
                     [] k = "test_type" -> t] :
        D \in SUBSET KwsKeys, l \in {LogFile}, n \in BackendNames, t \in TestTypes }

\* 0 <= study_count <= study_n <= pop_n, 0 <= pop_count <= pop_n and no
\* negative cell.
Valid(args) ==
    /\ args[1] <= args[2]
    /\ args[2] <= args[4]
    /\ args[3] <= args[4]
    /\ args[3] - args[1] >= 0
    /\ args[4] - args[3] - (args[2] - args[1]) >= 0

AllArgs(m) == (0..m) \X (0..m) \X (0..m) \X (0..m)

ValidArgs(m) == { args \in AllArgs(m) : Valid(args) }

\* The counts a single call is tried on.  fisher.pvalue_population is only
\* given valid counts (what it does with others is not documented);
\* scipy.stats.fisher_exact is given every tuple, valid or not.
CalcArgs(obj) ==
    IF obj.cls = "FisherScipyStats" THEN AllArgs(MaxPop) ELSE ValidArgs(MaxPop)

IdleFrame == [pc |-> "idle", args |-> <<>>, ext |-> <<>>, ret |-> NoRet]

----------------------------------------------------------------------------
\* The state machine

Init ==
    /\ env \in [fisher : BOOLEAN, scipy : BOOLEAN]
    /\ factory = NoObj
    /\ pval_obj = NoObj
    /\ raised = NoExc
    /\ stdout = <<>>
    /\ logsink = <<>>
    /\ ctor_calls = <<>>
    /\ frames = [c \in Callers |-> IdleFrame]

Fresh == factory = NoObj /\ pval_obj = NoObj /\ raised = NoExc

\* FisherFactory(**kws)
NewFisherFactory ==
    /\ Fresh
    /\ \E kws \in KwsSet :
         LET self == FisherFactory_init(kws)
             r    == FisherFactory_init_pval_obj(self, env)
         IN  /\ factory' = self
             /\ pval_obj' = r.obj
             /\ raised' = r.exc
             /\ stdout' = stdout \o r.printed
             /\ ctor_calls' = ctor_calls \o r.ctors
    /\ UNCHANGED <<env, logsink, frames>>

\* PvalCalcBase(name, pval_fnc, log, test_type), built without the factory.
NewPvalCalcBase ==
    /\ Fresh
    /\ \E t \in {"up", "updown"} :
         pval_obj' = PvalCalcBase_init("PvalCalcBase", "base", "no_fnc",
                                       SysStdout, t)
    /\ UNCHANGED <<env, factory, raised, stdout, logsink, ctor_calls, frames>>

\* A caller enters pval_obj.calc_pvalue(study_count, study_n, pop_count, pop_n).
Call(c) ==
    /\ pval_obj # NoObj
    /\ frames[c].pc = "idle"
    /\ \E args \in ValidArgs(MaxShared) :
         frames' = [frames EXCEPT ![c] = [pc |-> "running", args |-> args,
                                          ext |-> <<>>, ret |-> NoRet]]
    /\ UNCHANGED <<env, factory, pval_obj, raised, stdout, logsink, ctor_calls>>

\* The method body runs and the call returns or raises.
Return(c) ==
    /\ frames[c].pc = "running"
    /\ LET a == frames[c].args
           r == calc_pvalue(pval_obj, a[1], a[2], a[3], a[4])
       IN  /\ pval_obj' = r.self
           /\ frames' = [frames EXCEPT ![c] = [pc |-> "idle", args |-> a,
                                               ext |-> r.ext, ret |-> r.ret]]
    /\ UNCHANGED <<env, factory, raised, stdout, logsink, ctor_calls>>

Next ==
    \/ NewFisherFactory
    \/ NewPvalCalcBase
    \/ \E c \in Callers : Call(c)
    \/ \E c \in Callers : Return(c)

Spec == Init /\ [][Next]_vars

----------------------------------------------------------------------------
\* One calc_pvalue call on a calculator the factory has built: the initial
\* states are the states of Spec in which the factory has returned a
\* calculator and caller c1 has entered calc_pvalue with its four counts.

CalcInit ==
    /\ env \in [fisher : BOOLEAN, scipy : BOOLEAN]
    /\ \E kws \in KwsSet :
         LET self == FisherFactory_init(kws)
             r    == FisherFactory_init_pval_obj(self, env)
         IN  /\ r.exc = NoExc
             /\ factory = self
             /\ pval_obj = r.obj
             /\ raised = r.exc
             /\ stdout = r.printed
             /\ ctor_calls = r.ctors
             /\ \E args \in CalcArgs(r.obj) :
                  frames = [c \in Callers |->
                              IF c = "c1"
                              THEN [pc |-> "running", args |-> args,
                                    ext |-> <<>>, ret |-> NoRet]
                              ELSE IdleFrame]
    /\ logsink = <<>>

CalcNext == Return("c1")

CalcSpec == CalcInit /\ [][CalcNext]_vars

----------------------------------------------------------------------------
\* Properties of the factory (checked under Spec)

Registered(name) == name \in {"fisher", "fisher_scipy_stats"}

\* The class a registered name stands for and the module it imports.
NamedClass(name) == IF name = "fisher" THEN "FisherClass" ELSE "FisherScipyStats"
NamedAvailable(name) == IF name = "fisher" THEN env.fisher ELSE env.scipy

Built == factory # NoObj

Finished(c) == frames[c].pc = "idle" /\ frames[c].args # <<>>

Range(q) == { q[i] : i \in 1..Len(q) }

\* C1: a backend name outside the registry makes FisherFactory fail at once
\* with an Exception naming the value: no calculator, no constructor called
\* (neither the named one nor the fallback), nothing printed or logged, and
\* so no p-value ever.
C1_UnknownBackendFails ==
    (Built /\ ~Registered(factory.pval_fnc_name)) =>
        /\ raised.type = "Exception"
        /\ raised.msg = <<"PVALUE FUNCTION(", factory.pval_fnc_name, ") NOT FOUND">>
        /\ pval_obj = NoObj
        /\ ctor_calls = <<>>
        /\ stdout = <<>>
        /\ logsink = <<>>
        /\ \A c \in Callers : frames[c] = IdleFrame

C1_Witness ==
    /\ Built
    /\ factory.pval_fnc_name = "not_a_real_backend"
    /\ raised.type = "Exception"

\* C2: for a registered name, under every availability of fisher and scipy:
\* the named class when its module is there; FisherScipyStats when it is not
\* and scipy is; an ImportError leaves the constructor exactly when the named
\* module and scipy are both missing; the fallback constructor is called at
\* most once.
C2_FallbackToScipy ==
    (Built /\ Registered(factory.pval_fnc_name)) =>
        LET name == factory.pval_fnc_name
        IN  /\ NamedAvailable(name) =>
                  /\ raised = NoExc
                  /\ pval_obj.cls = NamedClass(name)
                  /\ ctor_calls = <<NamedClass(name)>>
            /\ (~NamedAvailable(name) /\ env.scipy) =>
                  /\ raised = NoExc
                  /\ pval_obj.cls = "FisherScipyStats"
                  /\ ctor_calls = <<NamedClass(name), "FisherScipyStats">>
            /\ (raised # NoExc) <=> (~NamedAvailable(name) /\ ~env.scipy)
            /\ raised # NoExc =>
                  /\ raised = [type |-> "ImportError", module |-> "scipy"]
                  /\ pval_obj = NoObj
            /\ Len(ctor_calls) <= 2
            /\ Len(ctor_calls) = 2 => ctor_calls[2] = "FisherScipyStats"

C2_Witness ==
    /\ Built
    /\ factory.pval_fnc_name = "fisher"
    /\ ~env.fisher
    /\ env.scipy
    /\ raised = NoExc
    /\ pval_obj.cls = "FisherScipyStats"

\* What has reached the sink the factory was configured with.
ConfiguredSink == IF factory.log = SysStdout THEN stdout ELSE logsink

TookFallback == Len(ctor_calls) = 2

\* C3: when the factory takes the fallback path the warning is written to
\* the configured log sink (sys.stdout only when no log option was given),
\* and a construction without fallback writes nothing to that sink.
C3_WarningToConfiguredSink ==
    Built =>
        /\ TookFallback => FallbackWarning \in Range(ConfiguredSink)
        /\ ~TookFallback => ConfiguredSink = <<>>

\* C8: calc_pvalue on a bare PvalCalcBase raises, for every argument tuple,
\* the NOT IMPLEMENTED Exception naming the call and the routine, and never
\* returns; a calculator the factory delivers is a FisherClass or a
\* FisherScipyStats, so no call on it raises that Exception.
C8_BaseNotImplemented ==
    /\ \A c \in Callers :
         (pval_obj.cls = "PvalCalcBase" /\ Finished(c)) =>
            LET a == frames[c].args
                r == frames[c].ret
            IN  /\ r.kind = "raise"
                /\ r.type = "Exception"
                /\ r.msg = <<"NOT IMPLEMENTED: ",
                             <<"calc_pvalue(", a[1], ", ", a[2], ", ", a[3],
                               " ", a[4], ")">>,
                             " using ", pval_obj.pval_fnc, ".">>
    /\ (Built /\ raised = NoExc) =>
         /\ pval_obj.cls \in {"FisherClass", "FisherScipyStats"}
         /\ \A c \in Callers :
              frames[c].ret.kind = "raise" => frames[c].ret.type # "Exception"

C8_Witness ==
    /\ pval_obj.cls = "PvalCalcBase"
    /\ Finished("c1")
    /\ frames["c1"].ret.kind = "raise"
    /\ Finished("c2")
    /\ frames["c2"].args # frames["c1"].args

\* C10: the factory does not look at test_type: with a registered name and
\* the named module or scipy importable, construction succeeds for every
\* test_type, an exception leaving the constructor is never about it, and on
\* a calculator whose test_type is none of up, down, updown every finished
\* calc_pvalue call has raised KeyError.
C10_TestTypeCheckedAtFirstUse ==
    Built =>
        /\ (/\ Registered(factory.pval_fnc_name)
            /\ (NamedAvailable(factory.pval_fnc_name) \/ env.scipy)) =>
              /\ raised = NoExc
              /\ pval_obj # NoObj
              /\ pval_obj.test_type = factory.test_type
        /\ raised # NoExc =>
              \/ raised.type = "ImportError"
              \/ ~Registered(factory.pval_fnc_name)
        /\ (pval_obj # NoObj /\ pval_obj.test_type \notin Directions) =>
              \A c \in Callers :
                 Finished(c) =>
                    /\ frames[c].ret.kind = "raise"
                    /\ frames[c].ret.type = "KeyError"

C10_Witness ==
    /\ Built
    /\ factory.test_type = "sideways"
    /\ raised = NoExc
    /\ Finished("c1")
    /\ frames["c1"].ret.kind = "raise"
    /\ frames["c1"].ret.type = "KeyError"

\* C7: no call changes the calculator's name, pval_fnc, log or test_type,
\* however the two callers' calls interleave, and two finished calls with
\* the same four counts have the same outcome.
C7_NoPerCallState ==
    /\ [][pval_obj # NoObj =>
            /\ pval_obj'.name = pval_obj.name
            /\ pval_obj'.pval_fnc = pval_obj.pval_fnc
            /\ pval_obj'.log = pval_obj.log
            /\ pval_obj'.test_type = pval_obj.test_type]_vars
    /\ [](\A c, d \in Callers :
            (Finished(c) /\ Finished(d) /\ frames[c].args = frames[d].args) =>
                frames[c].ret = frames[d].ret)

\* Both callers have finished a call on the shared FisherClass calculator,
\* with different counts and different p-values.
C7_Witness ==
    /\ pval_obj.cls = "FisherClass"
    /\ pval_obj.test_type = "up"
    /\ Finished("c1")
    /\ Finished("c2")
    /\ frames["c1"].ret.kind = "return"
    /\ frames["c2"].ret.kind = "return"
    /\ frames["c1"].args # frames["c2"].args
    /\ ~PEq(frames["c1"].ret.value, frames["c2"].ret.value)

----------------------------------------------------------------------------
\* Properties of one calc_pvalue call (checked under CalcSpec)

\* Caller c1's call, and whether it has come back.
TheCall == frames["c1"]
CallDone == TheCall.pc = "idle"

\* The same configuration on the other backend.
OtherVariant(obj) ==
    IF obj.cls = "FisherClass"
    THEN [obj EXCEPT !.cls = "FisherScipyStats",
                     !.pval_fnc = "scipy.stats.fisher_exact"]
    ELSE [obj EXCEPT !.cls = "FisherClass",
                     !.pval_fnc = "fisher.pvalue_population"]

\* C4: on valid counts and for each of up, down, updown, FisherClass and
\* FisherScipyStats return the same p-value.
C4_VariantsAgree ==
    (CallDone /\ Valid(TheCall.args) /\ pval_obj.test_type \in Directions) =>
        LET a     == TheCall.args
            other == calc_pvalue(OtherVariant(pval_obj), a[1], a[2], a[3], a[4])
        IN  /\ TheCall.ret.kind = "return"
            /\ other.ret.kind = "return"
            /\ PEq(TheCall.ret.value, other.ret.value)

\* A two-sided call on FisherScipyStats whose p-value is neither 1 nor the
\* one-sided p-value of the same table.
C4_Witness ==
    /\ CallDone
    /\ pval_obj.cls = "FisherScipyStats"
    /\ pval_obj.test_type = "updown"
    /\ Valid(TheCall.args)
    /\ TheCall.ret.kind = "return"
    /\ ~PEq(TheCall.ret.value, POne)
    /\ ~PEq(TheCall.ret.value,
            fisher_exact(TheCall.ext[1].table, "greater")[2])
    /\ ~PEq(TheCall.ret.value,
            fisher_exact(TheCall.ext[1].table, "less")[2])

\* Which tail each result field and each alternative tag stands for.
TailOfField ==
    [right_tail |-> "upper", left_tail |-> "lower", two_tail |-> "both"]
TailOfAlternative ==
    ("greater" :> "upper") @@ ("less" :> "lower") @@ ("two-sided" :> "both")

ExpectedField(t) ==
    CASE t = "up" -> "right_tail" [] t = "down" -> "left_tail"
      [] t = "updown" -> "two_tail"
ExpectedAlternative(t) ==
    CASE t = "up" -> "greater" [] t = "down" -> "less"
      [] t = "updown" -> "two-sided"

\* C5: with directionality up / down / updown, FisherClass calls the
\* population routine on the four counts and returns its right_tail /
\* left_tail / two_tail field; FisherScipyStats calls the exact-test routine
\* with greater / less / two-sided and returns the second component of the
\* result; both mappings pair a directionality with the same tail.
C5_DirectionalDispatch ==
    /\ \A t \in Directions :
         TailOfField[FisherClass_options[t]] =
            TailOfAlternative[FisherScipyStats_options[t]]
    /\ (CallDone /\ pval_obj.test_type \in Directions) =>
         LET a == TheCall.args
             t == pval_obj.test_type
         IN  IF pval_obj.cls = "FisherClass"
             THEN /\ TheCall.ext = <<[fnc |-> "fisher.pvalue_population",
                                      args |-> a]>>
                  /\ TheCall.ret.kind = "return"
                  /\ TheCall.ret.value =
                        pvalue_population(a[1], a[2], a[3], a[4])[ExpectedField(t)]
             ELSE /\ Len(TheCall.ext) = 1
                  /\ TheCall.ext[1].fnc = "scipy.stats.fisher_exact"
                  /\ TheCall.ext[1].alternative = ExpectedAlternative(t)
                  /\ TheCall.ret.kind = "return" =>
                        TheCall.ret.value =
                           fisher_exact(TheCall.ext[1].table,
                                        TheCall.ext[1].alternative)[2]
                  /\ TheCall.ret.kind = "raise" =>
                        fisher_exact_raises(TheCall.ext[1].table)

\* An 'up' call on FisherScipyStats whose three tails all differ.
C5_Witness ==
    /\ CallDone
    /\ pval_obj.cls = "FisherScipyStats"
    /\ pval_obj.test_type = "up"
    /\ TheCall.ret.kind = "return"
    /\ LET tb == TheCall.ext[1].table
       IN  /\ ~PEq(fisher_exact(tb, "greater")[2], fisher_exact(tb, "less")[2])
           /\ ~PEq(fisher_exact(tb, "greater")[2], fisher_exact(tb, "two-sided")[2])
           /\ ~PEq(fisher_exact(tb, "less")[2], fisher_exact(tb, "two-sided")[2])

\* C6: the table FisherScipyStats hands to the exact-test routine is
\* [[a,b],[c,d]] with a = study_count, b = study_n - study_count,
\* c = pop_count - study_count, d = pop_n - pop_count - b: its rows sum to
\* study_n and pop_n - study_n, its columns to pop_count and
\* pop_n - pop_count, and its four cells to pop_n.
C6_TableHandedOver ==
    (CallDone /\ pval_obj.cls = "FisherScipyStats"
              /\ pval_obj.test_type \in Directions) =>
        LET study_count == TheCall.args[1]
            study_n     == TheCall.args[2]
            pop_count   == TheCall.args[3]
            pop_n       == TheCall.args[4]
        IN  /\ Len(TheCall.ext) = 1
            /\ LET tb == TheCall.ext[1].table
               IN  /\ tb[1][1] = study_count
                   /\ tb[1][2] = study_n - study_count
                   /\ tb[2][1] = pop_count - study_count
                   /\ tb[2][2] = pop_n - pop_count - tb[1][2]
                   /\ tb[1][1] + tb[1][2] = study_n
                   /\ tb[2][1] + tb[2][2] = pop_n - study_n
                   /\ tb[1][1] + tb[2][1] = pop_count
                   /\ tb[1][2] + tb[2][2] = pop_n - pop_count
                   /\ tb[1][1] + tb[1][2] + tb[2][1] + tb[2][2] = pop_n

\* The table of the source's comment, scaled to the bound: [[2,1],[1,2]].
C6_Witness ==
    /\ CallDone
    /\ pval_obj.cls = "FisherScipyStats"
    /\ TheCall.args = <<2, 3, 3, 6>>
    /\ TheCall.ext[1].table = <<<<2, 1>>, <<1, 2>>>>
    /\ TheCall.ret.kind = "return"

\* The call with the table's rows exchanged and up/down exchanged.
RowSwapped(args) == <<args[3] - args[1], args[4] - args[2], args[3], args[4]>>
Mirrored(obj) ==
    [obj EXCEPT !.test_type = IF @ = "up" THEN "down" ELSE "up"]

\* C9: on valid counts, the 'up' p-value of [[a,b],[c,d]] is the 'down'
\* p-value of [[c,d],[a,b]], and the 'down' p-value of the first the 'up'
\* p-value of the second, on either backend.
C9_RowSwapSymmetry ==
    (CallDone /\ Valid(TheCall.args) /\ pval_obj.test_type \in {"up", "down"}) =>
        LET s     == RowSwapped(TheCall.args)
            other == calc_pvalue(Mirrored(pval_obj), s[1], s[2], s[3], s[4])
        IN  /\ Valid(s)
            /\ TheCall.ret.kind = "return"
            /\ other.ret.kind = "return"
            /\ PEq(TheCall.ret.value, other.ret.value)

\* An 'up' call whose p-value is below 1 and differs from the 'up' p-value
\* of the row-swapped table.
C9_Witness ==
    /\ CallDone
    /\ pval_obj.cls = "FisherClass"
    /\ pval_obj.test_type = "up"
    /\ Valid(TheCall.args)
    /\ TheCall.ret.kind = "return"
    /\ ~PEq(TheCall.ret.value, POne)
    /\ LET s == RowSwapped(TheCall.args)
       IN  ~PEq(TheCall.ret.value,
                calc_pvalue(pval_obj, s[1], s[2], s[3], s[4]).ret.value)

====
